---- MODULE Spec2Model ----
(***************************************************************************)
(* Model of src/load.py (ar_carga_sabana): the cleaning / filtering /      *)
(* validation pipeline of limpiar_y_validar_dataframe, the scalar          *)
(* validators it uses, and the transactional load performed by main().     *)
(*                                                                         *)
(* Python text is modelled as a sequence of one-character strings, so that *)
(* strip, upper, replace, split, substring search, str() and float() are   *)
(* computed character by character as the interpreter computes them.       *)
(* A float is modelled as a fixed-point number of hundredths.              *)
(***************************************************************************)
EXTENDS Integers, Sequences, FiniteSets, TLC

VARIABLES
    pc,         \* position of the running function
    arg,        \* argument of the scalar function under test
    ret,        \* value returned (or exception raised) by that function
    df,         \* the DataFrame read from the spreadsheet: a sequence of rows
    dfLimpio,   \* what limpiar_y_validar_dataframe returned / main() loads
    errores,    \* the list errores built by limpiar_y_validar_dataframe
    conn,       \* "none" | "open" | "closed" : the variable conn of main()
    cursor,     \* TRUE once conn.cursor() has returned
    idx,        \* number of rows of df_final already passed to cursor.execute
    pending,    \* rows inserted in the open transaction, in order
    committed,  \* rows made durable by a successful commit()
    calls,      \* the operations of the load attempted so far, in order
    exc,        \* the exception in flight / surfaced to the caller of main()
    logged      \* the classification main() logged for the failure

vars == <<pc, arg, ret, df, dfLimpio, errores, conn, cursor, idx, pending, committed,
          calls, exc, logged>>

-----------------------------------------------------------------------------
(* Characters and text *)

Digits == {"0", "1", "2", "3", "4", "5", "6", "7", "8", "9"}

Whitespace == {" ", "\t", "\n"}

LowerCase == <<"a","b","c","d","e","f","g","h","i","j","k","l","m",
               "n","o","p","q","r","s","t","u","v","w","x","y","z">>

UpperCase == <<"A","B","C","D","E","F","G","H","I","J","K","L","M",
               "N","O","P","Q","R","S","T","U","V","W","X","Y","Z">>

\* str.upper() on one character
UpperChar(c) ==
    IF \E i \in 1..Len(LowerCase) : LowerCase[i] = c
    THEN UpperCase[CHOOSE i \in 1..Len(LowerCase) : LowerCase[i] = c]
    ELSE c

\* str.upper()
Upper(s) == [i \in 1..Len(s) |-> UpperChar(s[i])]

\* str.lower() (builds the inputs)
LowerChar(c) ==
    IF \E i \in 1..Len(UpperCase) : UpperCase[i] = c
    THEN LowerCase[CHOOSE i \in 1..Len(UpperCase) : UpperCase[i] = c]
    ELSE c

Lower(s) == [i \in 1..Len(s) |-> LowerChar(s[i])]

\* str.strip(): drop leading and trailing whitespace
Strip(s) ==
    IF \A i \in 1..Len(s) : s[i] \in Whitespace THEN <<>>
    ELSE SubSeq(s,
                CHOOSE i \in 1..Len(s) :
                    s[i] \notin Whitespace /\ \A j \in 1..(i - 1) : s[j] \in Whitespace,
                CHOOSE i \in 1..Len(s) :
                    s[i] \notin Whitespace /\ \A j \in (i + 1)..Len(s) : s[j] \in Whitespace)

\* does p occur in s at position i
OccursAt(p, s, i) ==
    /\ i + Len(p) - 1 <= Len(s)
    /\ \A k \in 1..Len(p) : s[i + k - 1] = p[k]

\* the Python test  p in s  on text
Contains(p, s) == \E i \in 1..(Len(s) + 1) : OccursAt(p, s, i)

\* str.replace(p, '') for a non-empty p: left to right, non-overlapping
RECURSIVE Remove(_, _)
Remove(p, s) ==
    IF s = <<>> THEN <<>>
    ELSE IF OccursAt(p, s, 1) THEN Remove(p, SubSeq(s, Len(p) + 1, Len(s)))
    ELSE <<s[1]>> \o Remove(p, Tail(s))

\* index of the first sep in s (s holds one)
FirstIndex(s, sep) ==
    CHOOSE i \in 1..Len(s) : s[i] = sep /\ \A j \in 1..(i - 1) : s[j] # sep

\* str.split(sep) for a one-character sep: always at least one part
RECURSIVE Split(_, _)
Split(s, sep) ==
    IF \A i \in 1..Len(s) : s[i] # sep THEN <<s>>
    ELSE <<SubSeq(s, 1, FirstIndex(s, sep) - 1)>>
         \o Split(SubSeq(s, FirstIndex(s, sep) + 1, Len(s)), sep)

\* str.isdigit(): non-empty and every character a digit
IsDigitStr(s) == s # <<>> /\ \A i \in 1..Len(s) : s[i] \in Digits

\* concatenation of the parts with sep between them (builds the inputs)
RECURSIVE Join(_, _)
Join(parts, sep) ==
    IF Len(parts) = 0 THEN <<>>
    ELSE IF Len(parts) = 1 THEN parts[1]
    ELSE parts[1] \o <<sep>> \o Join(Tail(parts), sep)

-----------------------------------------------------------------------------
(* Python scalar values: text, int, float, float('nan') (an empty cell as  *)
(* pandas reads it) and None.                                              *)

PyStr(s)   == [t |-> "str",   s |-> s,    v |-> 0]
PyInt(n)   == [t |-> "int",   s |-> <<>>, v |-> n]
PyFloat(h) == [t |-> "float", s |-> <<>>, v |-> h]    \* h hundredths
PyInf(sg)  == [t |-> "inf",   s |-> <<>>, v |-> sg]   \* float('inf') * sg
NaN        == [t |-> "nan",   s |-> <<>>, v |-> 0]    \* float('nan')
None       == [t |-> "none",  s |-> <<>>, v |-> 0]

IsStr(x) == x.t = "str"

\* isinstance(x, (int, float)): NaN is a float
IsIntOrFloat(x) == x.t \in {"int", "float", "inf", "nan"}

-----------------------------------------------------------------------------
(* validar_codigo *)

NoRet == [raised |-> "", ok |-> FALSE, msg |-> "", n |-> 0]

Verdict(ok, msg, n) == [raised |-> "", ok |-> ok, msg |-> msg, n |-> n]

Raised(e) == [raised |-> e, ok |-> FALSE, msg |-> "", n |-> 0]

\* ValidarPartes with the length of the 5th part checked before the digits
ValidarPartes_LongitudPrimero(codigo, partes) ==
    IF Len(partes) # 6
    THEN Verdict(FALSE, "Debe tener 5 guiones (tiene n)", Len(partes) - 1)
    ELSE IF Len(partes[5]) # 6
    THEN Verdict(FALSE, "La parte 5 debe tener 6 digitos (anio-mes)", 0)
    ELSE IF ~(\A i \in 1..Len(partes) : IsDigitStr(partes[i]))
    THEN Verdict(FALSE, "Todas las partes deben ser numericas", 0)
    ELSE IF codigo[Len(codigo)] \notin Digits
    THEN Verdict(FALSE, "Debe terminar con un digito", 0)
    ELSE Verdict(TRUE, "Valido", 0)

\* validar_codigo once the text is split (lines 74-86)
ValidarPartes(codigo, partes) ==
    IF Len(partes) # 6
    THEN Verdict(FALSE, "Debe tener 5 guiones (tiene n)", Len(partes) - 1)
    ELSE IF ~(\A i \in 1..Len(partes) : IsDigitStr(partes[i]))
    THEN Verdict(FALSE, "Todas las partes deben ser numericas", 0)
    ELSE IF Len(partes[5]) # 6
    THEN Verdict(FALSE, "La parte 5 debe tener 6 digitos (anio-mes)", 0)
    ELSE IF Len(codigo) = 0
    THEN Raised("IndexError")          \* codigo[-1] on empty text
    ELSE IF codigo[Len(codigo)] \notin Digits
    THEN Verdict(FALSE, "Debe terminar con un digito", 0)
    ELSE Verdict(TRUE, "Valido", 0)

validar_codigo(codigo) ==
    IF ~IsStr(codigo) THEN Verdict(FALSE, "No es una cadena de texto", 0)
    ELSE ValidarPartes(codigo.s, Split(codigo.s, "-"))

-----------------------------------------------------------------------------
(* Text constants of the program, spelled as character sequences *)

ANIO_OBJETIVO == 2025

M_ENERO == <<"E","N","E","R","O">>

M_FEBRERO == <<"F","E","B","R","E","R","O">>

M_MARZO == <<"M","A","R","Z","O">>

M_ABRIL == <<"A","B","R","I","L">>

M_MAYO == <<"M","A","Y","O">>

M_JUNIO == <<"J","U","N","I","O">>

M_JULIO == <<"J","U","L","I","O">>

M_AGOSTO == <<"A","G","O","S","T","O">>

M_SEPTIEMBRE == <<"S","E","P","T","I","E","M","B","R","E">>

M_SETIEMBRE == <<"S","E","T","I","E","M","B","R","E">>

M_OCTUBRE == <<"O","C","T","U","B","R","E">>

M_NOVIEMBRE == <<"N","O","V","I","E","M","B","R","E">>

M_DICIEMBRE == <<"D","I","C","I","E","M","B","R","E">>

T_ANULADO == <<"A","N","U","L","A","D","O">>

T_BONIFICADO == <<"B","O","N","I","F","I","C","A","D","O">>

T_BONIFICADO_ANULADO == <<"B","O","N","I","F","I","C","A","D","O"," ","A","N","U","L","A","D","O">>

T_BONIFICADO_PERDIDO == <<"B","O","N","I","F","I","C","A","D","O"," ","P","E","R","D","I","D","O">>

T_BONIFICADO__PERDIDO == <<"B","O","N","I","F","I","C","A","D","O"," "," ","P","E","R","D","I","D","O">>

-----------------------------------------------------------------------------
(* validar_mes *)

meses_validos ==
    { M_ENERO, M_FEBRERO, M_MARZO, M_ABRIL, M_MAYO, M_JUNIO,
      M_JULIO, M_AGOSTO, M_SEPTIEMBRE, M_SETIEMBRE,
      M_OCTUBRE, M_NOVIEMBRE, M_DICIEMBRE }

\* int(x) on a float of h hundredths: truncation toward zero
TruncToInt(h) == IF h >= 0 THEN h \div 100 ELSE -((-h) \div 100)

BoolRet(b) == [raised |-> "", ok |-> b, msg |-> "", n |-> 0]

\* 1 <= n <= 12
EnRangoMes(n) == 1 <= n /\ n <= 12

validar_mes(mes) ==
    IF IsStr(mes) THEN BoolRet(Upper(Strip(mes.s)) \in meses_validos)
    ELSE IF IsIntOrFloat(mes)
    THEN CASE mes.t = "int"   -> BoolRet(EnRangoMes(mes.v))
           [] mes.t = "float" -> BoolRet(EnRangoMes(TruncToInt(mes.v)))
           [] mes.t = "nan"   -> Raised("ValueError")      \* int(float('nan'))
           [] mes.t = "inf"   -> Raised("OverflowError")   \* int(float('inf'))
    ELSE BoolRet(FALSE)

-----------------------------------------------------------------------------
(* str() and float() *)

DigitSeq == <<"0", "1", "2", "3", "4", "5", "6", "7", "8", "9">>

DigitVal(c) == (CHOOSE i \in 1..10 : DigitSeq[i] = c) - 1

\* the decimal digits of a natural number
RECURSIVE NatToStr(_)
NatToStr(n) ==
    IF n < 10 THEN <<DigitSeq[n + 1]>>
    ELSE NatToStr(n \div 10) \o <<DigitSeq[(n % 10) + 1]>>

\* the value of a string of decimal digits (0 for the empty string)
RECURSIVE DecVal(_)
DecVal(s) ==
    IF s = <<>> THEN 0
    ELSE 10 * DecVal(SubSeq(s, 1, Len(s) - 1)) + DigitVal(s[Len(s)])

\* the decimals of repr(float): one digit, two when the second is not 0
FracToStr(frac) ==
    IF frac % 10 = 0 THEN <<DigitSeq[(frac \div 10) + 1]>>
    ELSE <<DigitSeq[(frac \div 10) + 1], DigitSeq[(frac % 10) + 1]>>

Abs(n) == IF n < 0 THEN -n ELSE n

\* repr of a float of h hundredths: shortest digits, at least one decimal
FloatToStr(h) ==
    (IF h < 0 THEN <<"-">> ELSE <<>>)
        \o NatToStr(Abs(h) \div 100) \o <<".">> \o FracToStr(Abs(h) % 100)

\* str(x)
StrOf(x) ==
    CASE x.t = "str"   -> x.s
      [] x.t = "int"   -> (IF x.v < 0 THEN <<"-">> ELSE <<>>) \o NatToStr(Abs(x.v))
      [] x.t = "float" -> FloatToStr(x.v)
      [] x.t = "inf"   -> (IF x.v < 0 THEN <<"-">> ELSE <<>>) \o <<"i","n","f">>
      [] x.t = "nan"   -> <<"n","a","n">>
      [] x.t = "none"  -> <<"N","o","n","e">>

\* hundredths denoted by the fractional digits f (digits past the second
\* are beyond the fixed-point precision and are dropped)
FracVal(f) ==
    IF Len(f) = 0 THEN 0
    ELSE IF Len(f) = 1 THEN 10 * DigitVal(f[1])
    ELSE 10 * DigitVal(f[1]) + DigitVal(f[2])

AllDigits(s) == \A i \in 1..Len(s) : s[i] \in Digits

\* a decimal literal with integer digits ip and fractional digits fp
ParseParts(ip, fp, sg) ==
    IF AllDigits(ip) /\ AllDigits(fp) /\ Len(ip) + Len(fp) >= 1
    THEN [ok |-> TRUE, val |-> PyFloat(sg * (100 * DecVal(ip) + FracVal(fp)))]
    ELSE [ok |-> FALSE, val |-> None]

\* the unsigned literal b, whose "." are at the positions dots
ParseDecimal(b, sg, dots) ==
    IF dots = {} THEN ParseParts(b, <<>>, sg)
    ELSE IF Cardinality(dots) > 1 THEN [ok |-> FALSE, val |-> None]
    ELSE ParseParts(SubSeq(b, 1, (CHOOSE i \in dots : TRUE) - 1),
                    SubSeq(b, (CHOOSE i \in dots : TRUE) + 1, Len(b)),
                    sg)

ParseBody(b, sg) ==
    IF Upper(b) = <<"N","A","N">> THEN [ok |-> TRUE, val |-> NaN]
    ELSE IF Upper(b) \in {<<"I","N","F">>, <<"I","N","F","I","N","I","T","Y">>}
    THEN [ok |-> TRUE, val |-> PyInf(sg)]
    ELSE ParseDecimal(b, sg, {i \in 1..Len(b) : b[i] = "."})

ParseSigned(u) ==
    IF u # <<>> /\ u[1] \in {"+", "-"}
    THEN ParseBody(Tail(u), IF u[1] = "-" THEN -1 ELSE 1)
    ELSE ParseBody(u, 1)

\* float(s) on text: surrounding whitespace, an optional sign, then nan,
\* inf, infinity (any case) or a decimal literal  d+ | d+.d* | .d+ .
\* Anything else raises ValueError (ok = FALSE). Exponents and digit-group
\* underscores are not in the alphabet of the inputs the model draws.
ParseFloat(s) == ParseSigned(Strip(s))

\* x < 0 on a float (every comparison with NaN is False)
LtZero(x) ==
    CASE x.t \in {"int", "float"} -> x.v < 0
      [] x.t = "inf" -> x.v < 0
      [] OTHER -> FALSE

-----------------------------------------------------------------------------
(* validar_precio *)

textos_a_reemplazar ==
    << T_ANULADO, T_BONIFICADO, T_BONIFICADO_ANULADO,
       T_BONIFICADO_PERDIDO, T_BONIFICADO__PERDIDO >>

PrecioRet(valor, msg, texto) ==
    [raised |-> "", valor |-> valor, msg |-> msg, texto |-> texto]

\* lines 36-42 once float(valor_limpio) has returned r or raised.
\* (valor_limpio is text, so pd.notna(valor_limpio) is always True.)
ResultadoPrecio(r, valor_original) ==
    IF ~r.ok
    THEN PrecioRet(PyFloat(0), "Reemplazado por 0 (valor no numerico)",
                   valor_original)
    ELSE IF LtZero(r.val)
    THEN PrecioRet(PyFloat(0), "Reemplazado por 0 (valor negativo)", <<>>)
    ELSE PrecioRet(r.val, "OK", <<>>)

ConvertirPrecio(valor_limpio, valor_original) ==
    ResultadoPrecio(ParseFloat(valor_limpio), valor_original)

\* the first text of textos_a_reemplazar contained in v (v contains one)
PrimerTexto(v) ==
    textos_a_reemplazar[
        CHOOSE i \in 1..Len(textos_a_reemplazar) :
            /\ Contains(textos_a_reemplazar[i], v)
            /\ \A j \in 1..(i - 1) : ~Contains(textos_a_reemplazar[j], v)]

\* lines 25-32: v is valor.strip().upper()
PrecioDeTexto(v, valor_original) ==
    IF \E i \in 1..Len(textos_a_reemplazar) : Contains(textos_a_reemplazar[i], v)
    THEN PrecioRet(PyFloat(0), "Reemplazado por 0 (contiene)", PrimerTexto(v))
    ELSE ConvertirPrecio(Remove(<<",">>, Remove(<<" ">>, Remove(<<"S","/">>, v))),
                         valor_original)

validar_precio(valor) ==
    IF IsStr(valor) THEN PrecioDeTexto(Upper(Strip(valor.s)), StrOf(valor))
    ELSE ConvertirPrecio(StrOf(valor), StrOf(valor))

-----------------------------------------------------------------------------
(* The DataFrame: a sequence of rows, each a function from column name to  *)
(* scalar; the column "Fila" carries the row's index in the spreadsheet.   *)

columnas_texto ==
    <<"ASESOR", "INMOBILIARIA", "SERVICIO", "PROYECTO", "DISTRITO",
      "LIMA QUE PERTENECE", "CODIGO">>

campos_requeridos ==
    <<"ASESOR", "INMOBILIARIA", "TIPO", "SERVICIO", "PROYECTO", "DISTRITO",
      "LIMA QUE PERTENECE">>

columnas_anio == <<"ANIO DE FACTURACION", "ANIO DE REALIZACION">>

columnas_mes == <<"MES DE FACTURACION", "MES REALIZACION">>

Columnas ==
    {"Fila", "PRECIO", "TIPO"}
        \cup {columnas_texto[i] : i \in 1..Len(columnas_texto)}
        \cup {columnas_anio[i] : i \in 1..Len(columnas_anio)}
        \cup {columnas_mes[i] : i \in 1..Len(columnas_mes)}

InSeq(x, s) == \E i \in 1..Len(s) : s[i] = x

\* pd.isna on a scalar
IsNa(x) == x.t \in {"nan", "none"}

\* one element of  Series.astype(str).str.strip().str.upper()
AsTypeStrStripUpper(x) == PyStr(Upper(Strip(StrOf(x))))

\* one element of  pd.to_numeric(..., errors='coerce')
ToNumeric(x) ==
    CASE x.t \in {"int", "float", "inf", "nan"} -> x
      [] x.t = "none" -> NaN
      [] x.t = "str"  -> IF ParseFloat(x.s).ok THEN ParseFloat(x.s).val ELSE NaN

\* x == 2025 on a numeric scalar
EsAnio2025(x) ==
    \/ x.t = "int" /\ x.v = ANIO_OBJETIVO
    \/ x.t = "float" /\ x.v = 100 * ANIO_OBJETIVO

\* LimpiarFila without line 149: PRECIO keeps the value read
LimpiarFila_SinReemplazar(row) ==
    [c \in Columnas |->
        IF InSeq(c, columnas_texto) THEN AsTypeStrStripUpper(row[c])
        ELSE IF InSeq(c, columnas_anio) THEN ToNumeric(row[c])
        ELSE row[c]]

\* step 1 of limpiar_y_validar_dataframe on one row: the cleaned price
\* replaces PRECIO, the text columns are normalised, the years made numeric
LimpiarFila(row) ==
    [c \in Columnas |->
        IF c = "PRECIO" THEN validar_precio(row[c]).valor
        ELSE IF InSeq(c, columnas_texto) THEN AsTypeStrStripUpper(row[c])
        ELSE IF InSeq(c, columnas_anio) THEN ToNumeric(row[c])
        ELSE row[c]]

\* the row's entry in precios_modificados
Modificacion(row) ==
    [Fila |-> row["Fila"].v + 2,
     PRECIO_ORIGINAL |-> row["PRECIO"],
     PRECIO_LIMPIO |-> validar_precio(row["PRECIO"]).valor,
     Motivo |-> validar_precio(row["PRECIO"]).msg,
     CODIGO |-> row["CODIGO"],
     ASESOR |-> row["ASESOR"]]

SeqMap(Op(_), s) == [i \in 1..Len(s) |-> Op(s[i])]

PrecioModificado(row) == validar_precio(row["PRECIO"]).msg # "OK"

\* step 1: the cleaned DataFrame and precios_modificados
Limpieza(d) ==
    [df |-> SeqMap(LimpiarFila, d),
     precios_modificados |-> SeqMap(Modificacion, SelectSeq(d, PrecioModificado))]

En2025(row) ==
    /\ ~IsNa(row["ANIO DE FACTURACION"])
    /\ EsAnio2025(row["ANIO DE FACTURACION"])

CodigoValido(row) == validar_codigo(row["CODIGO"]).ok

Filtrado2025(row) == En2025(row) /\ CodigoValido(row)

Invalido2025(row) == En2025(row) /\ ~CodigoValido(row)

OtroAnio(row) == ~EsAnio2025(row["ANIO DE FACTURACION"])

RegistroInvalido(row) ==
    [Fila |-> row["Fila"].v + 2,
     CODIGO |-> row["CODIGO"],
     Motivo |-> validar_codigo(row["CODIGO"]),
     ASESOR |-> row["ASESOR"],
     PROYECTO |-> row["PROYECTO"],
     ANIO |-> row["ANIO DE FACTURACION"]]

\* step 2 on the cleaned DataFrame d
Filtro(d) ==
    [df_filtrado |-> SelectSeq(d, Filtrado2025),
     otros_anios |-> SelectSeq(d, OtroAnio),
     df_final |-> SelectSeq(d, Filtrado2025) \o SelectSeq(d, OtroAnio),
     registros_invalidos |-> SeqMap(RegistroInvalido, SelectSeq(d, Invalido2025))]

CampoInvalido(row, campo) ==
    ~IsStr(row[campo]) \/ Strip(row[campo].s) = <<>>

\* the check of one month column given validar_mes's answer r
ErrorMesDe(x, r) ==
    IF IsNa(x) THEN "vacio"
    ELSE IF r.raised # "" THEN r.raised
    ELSE IF ~r.ok THEN "invalido"
    ELSE ""

\* the check of one month column: "" when it passes
ErrorMes(x) == ErrorMesDe(x, validar_mes(x))

PrecioInvalido(x) == ~IsIntOrFloat(x) \/ LtZero(x)

\* errores_registro of one row of df_filtrado, in the order appended
ErroresRegistro(row) ==
    SelectSeq([i \in 1..Len(campos_requeridos) |->
                  IF CampoInvalido(row, campos_requeridos[i])
                  THEN <<campos_requeridos[i], "invalido (vacio o no texto)">>
                  ELSE <<>>]
              \o [i \in 1..Len(columnas_mes) |->
                  IF ErrorMes(row[columnas_mes[i]]) # ""
                  THEN <<columnas_mes[i], ErrorMes(row[columnas_mes[i]])>>
                  ELSE <<>>]
              \o <<IF PrecioInvalido(row["PRECIO"])
                   THEN <<"PRECIO", "invalido">> ELSE <<>> >>,
              LAMBDA e : e # <<>>)

TieneErrores(row) == ErroresRegistro(row) # <<>>

\* an exception validar_mes raised while a row was validated ("" if none)
ExcepcionMes(row) ==
    IF \E i \in 1..Len(columnas_mes) :
           ErrorMes(row[columnas_mes[i]]) \in {"ValueError", "OverflowError"}
    THEN "Error" ELSE ""

BloqueErrores(row) ==
    [Fila |-> row["Fila"].v + 2, errores |-> ErroresRegistro(row)]

\* step 3 on df_filtrado: the list errores (one block per row with errors)
Validacion(d) == SeqMap(BloqueErrores, SelectSeq(d, TieneErrores))

NoExc == [type |-> "", msg |-> "", origen |-> ""]

Exc(type, msg, origen) == [type |-> type, msg |-> msg, origen |-> origen]

\* ValidarFiltrado that logs the errors and returns df_filtrado all the same
ValidarFiltrado_SinAbortar(f) ==
    IF \E i \in 1..Len(f.df_filtrado) : ExcepcionMes(f.df_filtrado[i]) # ""
    THEN [exc |-> Exc("Error", "validar_mes", "validacion"), df |-> <<>>,
          errores |-> <<>>]
    ELSE [exc |-> NoExc, df |-> f.df_filtrado,
          errores |-> Validacion(f.df_filtrado)]

\* the outcome of step 3 given the list errores (lines 270-277)
Resultado(df_filtrado, errs) ==
    IF errs # <<>>
    THEN [exc |-> Exc("ValueError", "Errores de validacion encontrados",
                      "validacion"),
          df |-> <<>>, errores |-> errs]
    ELSE [exc |-> NoExc, df |-> df_filtrado, errores |-> errs]

\* step 3 and the return: f is the result of step 2
ValidarFiltrado(f) ==
    IF \E i \in 1..Len(f.df_filtrado) : ExcepcionMes(f.df_filtrado[i]) # ""
    THEN [exc |-> Exc("Error", "validar_mes", "validacion"), df |-> <<>>,
          errores |-> <<>>]
    ELSE Resultado(f.df_filtrado, Validacion(f.df_filtrado))

\* limpiar_y_validar_dataframe(df): the DataFrame returned, or the
\* exception raised
limpiar_y_validar_dataframe(d) == ValidarFiltrado(Filtro(Limpieza(d).df))

meses_a_numeros(m) ==
    CASE m = M_ENERO -> 1 [] m = M_FEBRERO -> 2 [] m = M_MARZO -> 3
      [] m = M_ABRIL -> 4 [] m = M_MAYO -> 5 [] m = M_JUNIO -> 6
      [] m = M_JULIO -> 7 [] m = M_AGOSTO -> 8
      [] m = M_SEPTIEMBRE -> 9 [] m = M_SETIEMBRE -> 9
      [] m = M_OCTUBRE -> 10 [] m = M_NOVIEMBRE -> 11 [] m = M_DICIEMBRE -> 12
      [] OTHER -> 0

\* the lambda of transformar_meses on one value
TransformarMes(x) ==
    IF IsStr(x) /\ meses_a_numeros(Upper(Strip(x.s))) # 0
    THEN PyInt(meses_a_numeros(Upper(Strip(x.s))))
    ELSE x

transformar_meses(d) ==
    SeqMap(LAMBDA row : [c \in Columnas |->
                            IF InSeq(c, columnas_mes) THEN TransformarMes(row[c])
                            ELSE row[c]],
           d)

-----------------------------------------------------------------------------
(* The parameters main() builds for one INSERT *)

\* int(u) on stripped text
IntDeTexto(u) ==
    IF u # <<>> /\ u[1] \in {"+", "-"}
    THEN IF IsDigitStr(Tail(u))
         THEN [exc |-> "", v |-> (IF u[1] = "-" THEN -1 ELSE 1) * DecVal(Tail(u))]
         ELSE [exc |-> "ValueError", v |-> 0]
    ELSE IF IsDigitStr(u) THEN [exc |-> "", v |-> DecVal(u)]
    ELSE [exc |-> "ValueError", v |-> 0]

\* int(x): the value, or the exception raised
IntDe(x) ==
    CASE x.t = "int"   -> [exc |-> "", v |-> x.v]
      [] x.t = "float" -> [exc |-> "", v |-> TruncToInt(x.v)]
      [] x.t = "nan"   -> [exc |-> "ValueError", v |-> 0]
      [] x.t = "inf"   -> [exc |-> "OverflowError", v |-> 0]
      [] x.t = "none"  -> [exc |-> "TypeError", v |-> 0]
      [] x.t = "str"   -> IntDeTexto(Strip(x.s))

\* the exception raised while the parameter tuple of a row is built
\* (lines 364-376), "" when it is built
ErrorParametros(row) ==
    IF IntDe(row["MES DE FACTURACION"]).exc # "" THEN IntDe(row["MES DE FACTURACION"]).exc
    ELSE IF IntDe(row["ANIO DE FACTURACION"]).exc # "" THEN IntDe(row["ANIO DE FACTURACION"]).exc
    ELSE IF IntDe(row["MES REALIZACION"]).exc # "" THEN IntDe(row["MES REALIZACION"]).exc
    ELSE IntDe(row["ANIO DE REALIZACION"]).exc

\* the parameter tuple of a row (the campaign columns, passed through
\* row.get / safe_date, which never raise, are left out)
Parametros(row) ==
    [Fila |-> row["Fila"].v,
     ASESOR |-> row["ASESOR"],
     MES_FACTURACION |-> IntDe(row["MES DE FACTURACION"]).v,
     ANO_FACTURACION |-> IntDe(row["ANIO DE FACTURACION"]).v,
     TIPO |-> row["TIPO"],
     PRECIO |-> row["PRECIO"],
     CODIGO |-> Strip(row["CODIGO"].s),
     INMOBILIARIA |-> row["INMOBILIARIA"],
     SERVICIO |-> row["SERVICIO"],
     PROYECTO |-> row["PROYECTO"],
     DISTRITO |-> row["DISTRITO"],
     LIMA_QUE_PERTENECE |-> row["LIMA QUE PERTENECE"],
     MES_REALIZACION |-> IntDe(row["MES REALIZACION"]).v,
     ANO_REALIZACION |-> IntDe(row["ANIO DE REALIZACION"]).v]

-----------------------------------------------------------------------------
(* The spreadsheets the model reads *)

MaxFilas == 2

TXT_PRECIO == <<"S","/"," ","1",",","2","3","4",".","5","0">>

TXT_TIPO == <<"V","e","n","t","a">>

TXT_CODIGO == <<" ","0","-","3","5","-","1","3","-","3","2","0","3","-","0","1","2","0","2","5","-","1","0","0"," ">>

TXT_CODIGO_MALO == <<"0","-","3","5","-","1","3","-","3","2","0","3","-","1","2","0","2","5","-","1","0","0">>

TXT_ASESOR == <<"A","n","a"," ">>

TXT_PROYECTO == <<"p","1">>

TXT_MES == <<" ","E","n","e","r","o">>

TXT_MIERCOLES == <<"M","i","e","r","c","o","l","e","s">>

TXT_ANULADO_MIN == <<"a","n","u","l","a","d","o">>

FilaBase ==
    [c \in Columnas |->
        CASE c = "Fila" -> PyInt(0)
          [] c = "PRECIO" -> PyStr(TXT_PRECIO)
          [] c = "TIPO" -> PyStr(TXT_TIPO)
          [] c = "CODIGO" -> PyStr(TXT_CODIGO)
          [] c = "ASESOR" -> PyStr(TXT_ASESOR)
          [] c = "PROYECTO" -> PyStr(TXT_PROYECTO)
          [] c = "ANIO DE FACTURACION" -> PyInt(2025)
          [] c = "ANIO DE REALIZACION" -> PyInt(2025)
          [] c = "MES DE FACTURACION" -> PyStr(TXT_MES)
          [] c = "MES REALIZACION" -> PyFloat(700)
          [] OTHER -> PyStr(<<"x">>)]

\* a row that differs from FilaBase in the columns of cambios
Con(cambios) ==
    [c \in Columnas |-> IF c \in DOMAIN cambios THEN cambios[c] ELSE FilaBase[c]]

Variantes ==
    << FilaBase,
       Con([x \in {"ANIO DE FACTURACION"} |-> PyInt(2024)]),
       Con([x \in {"ANIO DE FACTURACION"} |-> NaN]),
       Con([x \in {"ANIO DE FACTURACION"} |-> PyStr(<<"2","0","2","5">>)]),
       Con([x \in {"CODIGO"} |-> PyStr(TXT_CODIGO_MALO)]),
       Con([x \in {"PROYECTO"} |-> NaN]),
       Con([x \in {"PROYECTO"} |-> PyStr(<<" ", " ">>)]),
       Con([x \in {"TIPO"} |-> NaN]),
       Con([x \in {"MES DE FACTURACION"} |-> PyInt(13)]),
       Con([x \in {"MES REALIZACION"} |-> NaN]),
       Con([x \in {"MES REALIZACION"} |-> PyStr(TXT_MIERCOLES)]),
       Con([x \in {"PRECIO"} |-> PyStr(TXT_ANULADO_MIN)]),
       Con([x \in {"PRECIO"} |-> NaN]),
       Con([x \in {"PRECIO"} |-> PyFloat(-550)]),
       Con([x \in {"PRECIO"} |-> PyStr(<<"a","b","c">>)]),
       Con([x \in {"ANIO DE REALIZACION"} |-> NaN]),
       Con([x \in {"ANIO DE FACTURACION", "CODIGO", "PROYECTO"} |->
               CASE x = "ANIO DE FACTURACION" -> PyFloat(202400)
                 [] x = "CODIGO" -> PyStr(TXT_CODIGO_MALO)
                 [] x = "PROYECTO" -> NaN]) >>

\* the DataFrame whose i-th row is variant f[i]
Hoja(f) == [i \in DOMAIN f |-> [Variantes[f[i]] EXCEPT !["Fila"] = PyInt(i - 1)]]

\* d is a spreadsheet of at most MaxFilas rows, each one of the variants
EsEntrada(d) ==
    \E n \in 0..MaxFilas : \E f \in [1..n -> 1..Len(Variantes)] : d = Hoja(f)

-----------------------------------------------------------------------------
(* main() *)

Call(op, ok) == [op |-> op, ok |-> ok]

Init ==
    /\ pc = "inicio"
    /\ arg = None
    /\ ret = NoRet
    /\ df = <<>>
    /\ dfLimpio = <<>>
    /\ errores = <<>>
    /\ conn = "none"
    /\ cursor = FALSE
    /\ idx = 0
    /\ pending = <<>>
    /\ committed = <<>>
    /\ calls = <<>>
    /\ exc = NoExc
    /\ logged = ""

\* line 311: pd.read_excel returns the sheet or raises
LeerExcel ==
    /\ pc = "inicio"
    /\ \/ /\ EsEntrada(df')
          /\ pc' = "limpiar"
          /\ exc' = exc
       \/ /\ df' = df
          /\ exc' = Exc("FileNotFoundError", "read_excel", "lectura")
          /\ pc' = "except"
    /\ UNCHANGED <<errores, arg, ret, dfLimpio, conn, cursor, idx, pending, committed,
                   calls, logged>>

\* line 314: df_limpio = limpiar_y_validar_dataframe(df)
LimpiarYValidar ==
    /\ pc = "limpiar"
    /\ \E r \in {limpiar_y_validar_dataframe(df)} :
           /\ errores' = r.errores
           /\ IF r.exc # NoExc
              THEN /\ exc' = r.exc
                   /\ pc' = "except"
                   /\ dfLimpio' = dfLimpio
              ELSE /\ dfLimpio' = r.df
                   /\ pc' = "transformar"
                   /\ exc' = exc
    /\ UNCHANGED <<arg, ret, df, conn, cursor, idx, pending, committed,
                   calls, logged>>

\* line 317: df_final = transformar_meses(df_limpio)
TransformarMeses ==
    /\ pc = "transformar"
    /\ dfLimpio' = transformar_meses(dfLimpio)
    /\ pc' = "conectar"
    /\ UNCHANGED <<errores, arg, ret, df, conn, cursor, idx, pending, committed,
                   calls, exc, logged>>

\* lines 332-338: mysql.connector.connect returns a connection or raises
Conectar ==
    /\ pc = "conectar"
    /\ \/ /\ conn' = "open"
          /\ calls' = Append(calls, Call("connect", TRUE))
          /\ pc' = "cursor"
          /\ exc' = exc
       \/ /\ conn' = conn
          /\ calls' = Append(calls, Call("connect", FALSE))
          /\ exc' = Exc("Error", "connect", "conexion")
          /\ pc' = "except"
    /\ UNCHANGED <<errores, arg, ret, df, dfLimpio, cursor, idx, pending, committed,
                   logged>>

\* lines 340-341: conn.cursor() and conn.autocommit = False
AbrirCursor ==
    /\ pc = "cursor"
    /\ \/ /\ cursor' = TRUE
          /\ calls' = Append(calls, Call("cursor", TRUE))
          /\ pc' = "insertar"
          /\ exc' = exc
       \/ /\ cursor' = cursor
          /\ calls' = Append(calls, Call("cursor", FALSE))
          /\ exc' = Exc("Error", "cursor", "cursor")
          /\ pc' = "except"
    /\ UNCHANGED <<errores, arg, ret, df, dfLimpio, conn, idx, pending, committed,
                   logged>>

\* Insertar whose handler logs the failure and goes on with the next row
Insertar_SigueTrasFallo ==
    /\ pc = "insertar"
    /\ idx < Len(dfLimpio)
    /\ \/ /\ ErrorParametros(dfLimpio[idx + 1]) = ""
          /\ pending' = Append(pending, Parametros(dfLimpio[idx + 1]))
          /\ calls' = Append(calls, Call("insert", TRUE))
       \/ /\ pending' = pending
          /\ calls' = Append(calls, Call("insert", FALSE))
    /\ idx' = idx + 1
    /\ UNCHANGED <<errores, pc, exc, arg, ret, df, dfLimpio, conn, cursor, committed, logged>>

\* lines 345-400: one iteration of the loop; the parameters are built, then
\* cursor.execute runs; any exception is logged and re-raised to line 405
Insertar ==
    /\ pc = "insertar"
    /\ idx < Len(dfLimpio)
    /\ LET row == dfLimpio[idx + 1]
       IN  \/ /\ ErrorParametros(row) = ""
              /\ pending' = Append(pending, Parametros(row))
              /\ calls' = Append(calls, Call("insert", TRUE))
              /\ idx' = idx + 1
              /\ pc' = pc
              /\ exc' = exc
           \/ /\ ErrorParametros(row) = ""
              /\ pending' = pending
              /\ calls' = Append(calls, Call("insert", FALSE))
              /\ idx' = idx + 1
              /\ exc' = Exc("Error", "execute", "insert")
              /\ pc' = "rollback"
           \/ /\ ErrorParametros(row) # ""
              /\ pending' = pending
              /\ calls' = Append(calls, Call("insert", FALSE))
              /\ idx' = idx + 1
              /\ exc' = Exc(ErrorParametros(row), "parametros", "insert")
              /\ pc' = "rollback"
    /\ UNCHANGED <<errores, arg, ret, df, dfLimpio, conn, cursor, committed, logged>>

\* line 402: conn.commit() after the loop
Commit ==
    /\ pc = "insertar"
    /\ idx = Len(dfLimpio)
    /\ \/ /\ calls' = Append(calls, Call("commit", TRUE))
          /\ committed' = committed \o pending
          /\ pending' = <<>>
          /\ pc' = "finally"
          /\ exc' = exc
       \/ /\ calls' = Append(calls, Call("commit", FALSE))
          /\ committed' = committed
          /\ pending' = pending
          /\ exc' = Exc("Error", "commit", "commit")
          /\ pc' = "rollback"
    /\ UNCHANGED <<errores, arg, ret, df, dfLimpio, conn, cursor, idx, logged>>

\* lines 405-408: conn.rollback(), then ValueError raised from the cause
Rollback ==
    /\ pc = "rollback"
    /\ \/ /\ calls' = Append(calls, Call("rollback", TRUE))
          /\ pending' = <<>>
          /\ exc' = Exc("ValueError", "No se inserto ningun registro debido a errores",
                        exc.origen)
       \/ /\ calls' = Append(calls, Call("rollback", FALSE))
          /\ pending' = pending
          /\ exc' = Exc("Error", "rollback", "rollback")
    /\ pc' = "except"
    /\ UNCHANGED <<errores, arg, ret, df, dfLimpio, conn, cursor, idx, committed, logged>>

\* lines 410-415: the handlers of the outer try log and re-raise
Except ==
    /\ pc = "except"
    /\ logged' = IF exc.type = "ValueError" THEN "Error de validacion"
                 ELSE "Error en el proceso"
    /\ pc' = "finally"
    /\ UNCHANGED <<errores, arg, ret, df, dfLimpio, conn, cursor, idx, pending,
                   committed, calls, exc>>

\* Finally that closes the connection only when no exception is in flight
Finally_SoloSinError ==
    /\ pc = "finally"
    /\ IF conn = "open" /\ exc = NoExc
       THEN /\ conn' = "closed"
            /\ calls' = Append(calls, Call("close", TRUE))
            /\ pending' = <<>>
       ELSE UNCHANGED <<conn, calls, pending>>
    /\ pc' = "done"
    /\ UNCHANGED <<errores, arg, ret, df, dfLimpio, cursor, idx, committed, exc, logged>>

\* lines 416-419: finally: if conn: conn.close(). Closing ends the session:
\* the server discards what the transaction left uncommitted.
Finally ==
    /\ pc = "finally"
    /\ IF conn = "open"
       THEN /\ conn' = "closed"
            /\ calls' = Append(calls, Call("close", TRUE))
            /\ pending' = <<>>
       ELSE UNCHANGED <<conn, calls, pending>>
    /\ pc' = "done"
    /\ UNCHANGED <<errores, arg, ret, df, dfLimpio, cursor, idx, committed, exc, logged>>

Next ==
    \/ LeerExcel
    \/ LimpiarYValidar
    \/ TransformarMeses
    \/ Conectar
    \/ AbrirCursor
    \/ Insertar
    \/ Commit
    \/ Rollback
    \/ Except
    \/ Finally

Spec == Init /\ [][Next]_vars

-----------------------------------------------------------------------------
(* validar_codigo, validar_mes and validar_precio called on their own *)

EnMain == <<df, dfLimpio, errores, conn, cursor, idx, pending, committed, calls, exc, logged>>

\* nothing of main() has run
MainEnReposo ==
    /\ df = <<>>
    /\ dfLimpio = <<>>
    /\ errores = <<>>
    /\ conn = "none"
    /\ cursor = FALSE
    /\ idx = 0
    /\ pending = <<>>
    /\ committed = <<>>
    /\ calls = <<>>
    /\ exc = NoExc
    /\ logged = ""

MaxPartes == 7

Segmentos == {<<>>, <<"0">>, <<"0","1","2","0","2","5">>, <<"A">>}

NoTexto == {NaN, None, PyInt(5), PyFloat(150)}

\* x is a non-text value or a text of 1..MaxPartes segments joined by "-"
EsEntradaCodigo(x) ==
    \/ x \in NoTexto
    \/ \E n \in 1..MaxPartes : \E f \in [1..n -> Segmentos] : x = PyStr(Join(f, "-"))

InitCodigo ==
    /\ pc = "llamar"
    /\ EsEntradaCodigo(arg)
    /\ ret = NoRet
    /\ MainEnReposo

LlamarValidarCodigo ==
    /\ pc = "llamar"
    /\ ret' = validar_codigo(arg)
    /\ pc' = "retorno"
    /\ UNCHANGED <<arg, EnMain>>

SpecCodigo == InitCodigo /\ [][LlamarValidarCodigo]_vars

Meses ==
    { M_ENERO, M_FEBRERO, M_MARZO, M_ABRIL, M_MAYO, M_JUNIO, M_JULIO, M_AGOSTO,
      M_SEPTIEMBRE, M_SETIEMBRE, M_OCTUBRE, M_NOVIEMBRE, M_DICIEMBRE }

EntradasMes ==
    {PyStr(m) : m \in Meses}
        \cup {PyStr(Lower(m)) : m \in Meses}
        \cup {PyStr(<<" ">> \o m \o <<" ", "\n">>) : m \in Meses}
        \cup {PyStr(TXT_MIERCOLES), PyStr(<<>>), PyStr(<<"7">>), PyStr(<<"E","N","E">>)}
        \cup {PyInt(n) : n \in {-1, 0, 1, 7, 12, 13}}
        \cup {PyFloat(h) : h \in {-50, 0, 50, 99, 100, 150, 700, 1200, 1250, 1299, 1300}}
        \cup {NaN, None}

InitMes ==
    /\ pc = "llamar"
    /\ arg \in EntradasMes
    /\ ret = NoRet
    /\ MainEnReposo

LlamarValidarMes ==
    /\ pc = "llamar"
    /\ ret' = validar_mes(arg)
    /\ pc' = "retorno"
    /\ UNCHANGED <<arg, EnMain>>

SpecMes == InitMes /\ [][LlamarValidarMes]_vars

Prefijos == {<<>>, <<" ">>, <<"S","/"," ">>, <<"s","/">>}

Sufijos == {<<>>, <<" ">>}

Cuerpos ==
    { <<"1",",","2","3","4",".","5","0">>, <<"0">>, <<"1","2",".","5">>,
      <<"-","3">>, <<"a","b","c">>, <<>>, <<"1",".","2",".","3">>, <<"-">>,
      <<".","5">>, <<"7",".">>, <<"n","a","n">>, <<"i","n","f">>,
      TXT_ANULADO_MIN, Lower(T_BONIFICADO__PERDIDO), T_BONIFICADO_ANULADO,
      <<"1","0"," ">> \o T_BONIFICADO }

EntradasPrecio ==
    {PyStr(a \o b \o c) : a \in Prefijos, b \in Cuerpos, c \in Sufijos}
        \cup {PyInt(n) : n \in {-3, 0, 100}}
        \cup {PyFloat(h) : h \in {-550, 0, 5, 1250, 123450}}
        \cup {NaN, None}

InitPrecio ==
    /\ pc = "llamar"
    /\ arg \in EntradasPrecio
    /\ ret = NoRet
    /\ MainEnReposo

LlamarValidarPrecio ==
    /\ pc = "llamar"
    /\ ret' = validar_precio(arg)
    /\ pc' = "retorno"
    /\ UNCHANGED <<arg, EnMain>>

SpecPrecio == InitPrecio /\ [][LlamarValidarPrecio]_vars

-----------------------------------------------------------------------------
(* Step 1 of limpiar_y_validar_dataframe (lines 111-161) applied to a      *)
(* spreadsheet, and then again to its own output                           *)

InitLimpieza ==
    /\ pc = "cruda"
    /\ arg = <<>>
    /\ ret = <<>>
    /\ EsEntrada(df)
    /\ dfLimpio = <<>>
    /\ errores = <<>>
    /\ conn = "none"
    /\ cursor = FALSE
    /\ idx = 0
    /\ pending = <<>>
    /\ committed = <<>>
    /\ calls = <<>>
    /\ exc = NoExc
    /\ logged = ""

\* first application: dfLimpio is the cleaned DataFrame
LimpiarUnaVez ==
    /\ pc = "cruda"
    /\ \E r \in {Limpieza(df)} :
           /\ dfLimpio' = r.df
           /\ ret' = r.precios_modificados
    /\ pc' = "limpia"
    /\ UNCHANGED <<errores, arg, df, conn, cursor, idx, pending, committed, calls, exc, logged>>

\* second application, to the output of the first: arg is its output
LimpiarOtraVez ==
    /\ pc = "limpia"
    /\ \E r \in {Limpieza(dfLimpio)} :
           /\ arg' = r.df
           /\ ret' = r.precios_modificados
    /\ pc' = "relimpia"
    /\ UNCHANGED <<errores, df, dfLimpio, conn, cursor, idx, pending, committed, calls, exc,
                   logged>>

NextLimpieza == LimpiarUnaVez \/ LimpiarOtraVez

SpecLimpieza == InitLimpieza /\ [][NextLimpieza]_vars

-----------------------------------------------------------------------------
(* Properties of the load performed by main() *)

\* positions of calls at which op was attempted
Pos(op) == {i \in 1..Len(calls) : calls[i].op = op}

\* the parameter tuples of every row main() was given to load
TodasLasFilas == [i \in 1..Len(dfLimpio) |-> Parametros(dfLimpio[i])]

\* rows reach the transaction one at a time, in input order
InsertaEnOrden ==
    /\ Len(pending) <= Len(dfLimpio)
    /\ \A i \in 1..Len(pending) : pending[i] = Parametros(dfLimpio[i])
    /\ \A i \in Pos("insert") :
           Cardinality({j \in Pos("insert") : j <= i}) <= Len(dfLimpio)

\* the first insert failure is followed by rollback() and by no further
\* insert and no commit()
FalloDetieneLaCarga ==
    \A i \in Pos("insert") :
        ~calls[i].ok =>
            /\ i < Len(calls) => calls[i + 1].op = "rollback"
            /\ \A j \in (i + 1)..Len(calls) : calls[j].op \notin {"insert", "commit"}

\* commit() is called only after every insert has succeeded
CommitTrasTodos ==
    \A i \in Pos("commit") :
        /\ \A j \in Pos("insert") : j < i /\ calls[j].ok
        /\ Cardinality(Pos("insert")) = Len(dfLimpio)

\* no run ends with a committed strict subset of the rows
SinCargaParcial ==
    /\ committed \in {<<>>, TodasLasFilas}
    /\ committed # <<>> => Call("commit", TRUE) \in {calls[i] : i \in 1..Len(calls)}

\* C1 as stated: rows are inserted one at a time in input order in one
\* transaction; the first insert failure is followed by rollback(), by no
\* further insert and by no commit(); commit() is called only after every
\* insert succeeded; commit() and rollback() are never both called in a run;
\* no run ends with a committed strict subset of the rows.
C1_CargaTodoONada_Original ==
    /\ InsertaEnOrden
    /\ FalloDetieneLaCarga
    /\ CommitTrasTodos
    /\ ~(Pos("commit") # {} /\ Pos("rollback") # {})
    /\ SinCargaParcial

\* C1 amended: as C1, except that rollback() is called in a run that called
\* commit() exactly when commit() itself raised; a commit() that returned is
\* never followed by rollback().
C1_CargaTodoONada ==
    /\ InsertaEnOrden
    /\ FalloDetieneLaCarga
    /\ CommitTrasTodos
    /\ \A i \in Pos("commit") : \A j \in Pos("rollback") : i < j /\ ~calls[i].ok
    /\ SinCargaParcial

\* C1 witness: the second of two rows failed to insert, rollback() ran,
\* the run ended and nothing is committed
C1_Witness ==
    /\ pc = "done"
    /\ Len(dfLimpio) = 2
    /\ Len(calls) >= 5
    /\ calls[3] = Call("insert", TRUE)
    /\ calls[4] = Call("insert", FALSE)
    /\ calls[5] = Call("rollback", TRUE)
    /\ committed = <<>>

\* the rows of the cleaned sheet that the filter stage is to admit: those
\* of the target year whose code is valid, and all those of other years
AdmitidosEsperados ==
    {r \in {Limpieza(df).df[i] : i \in 1..Len(df)} :
        \/ En2025(r) /\ validar_codigo(r["CODIGO"]).ok
        \/ ~En2025(r)}

\* C2: what limpiar_y_validar_dataframe hands to the load is exactly the
\* target-year rows with a valid code plus all rows of other years.
C2_AdmitidosConOtrosAnios ==
    pc = "transformar" =>
        {dfLimpio[i] : i \in 1..Len(dfLimpio)} = AdmitidosEsperados

\* a raw row of the target year, with a valid code, whose PROYECTO is
\* missing (null) or blank
SinProyecto(i) ==
    /\ En2025(LimpiarFila(df[i]))
    /\ validar_codigo(LimpiarFila(df[i])["CODIGO"]).ok
    /\ \/ IsNa(df[i]["PROYECTO"])
       \/ IsStr(df[i]["PROYECTO"]) /\ Strip(df[i]["PROYECTO"].s) = <<>>

\* C3: when a target-year row with a valid code lacks PROYECTO, the run
\* raises the batch-level validation failure and attempts no insert.
C3_SinProyectoFalla ==
    (pc \notin {"inicio", "limpiar"} /\ \E i \in 1..Len(df) : SinProyecto(i)) =>
        /\ exc.type = "ValueError"
        /\ exc.origen = "validacion"
        /\ Pos("insert") = {}

\* C4: a run that ended because an insert failed reports a failure of
\* another kind than a run the validator rejected, which surfaces a
\* ValueError that main() logs as "Error de validacion".
C4_FalloDeCargaDistinto ==
    (pc = "done" /\ exc.origen = "insert") =>
        <<exc.type, logged>> # <<"ValueError", "Error de validacion">>

\* C5: once the connection was opened the run closes it exactly once
\* before it ends, whatever happened in between; it is never closed twice.
C5_ConexionCerrada ==
    /\ Cardinality(Pos("close")) <= 1
    /\ pc = "done" =>
          /\ conn # "open"
          /\ Call("connect", TRUE) \in {calls[i] : i \in 1..Len(calls)} =>
                /\ conn = "closed"
                /\ Cardinality(Pos("close")) = 1
                /\ calls[Len(calls)].op = "close"

\* C5 witness: rollback() itself raised and the run ended with the
\* connection closed
C5_Witness ==
    /\ pc = "done"
    /\ Call("rollback", FALSE) \in {calls[i] : i \in 1..Len(calls)}
    /\ conn = "closed"

\* C6: when a target-year admitted row fails a check of the validator the
\* run never touches the database: no connection, insert, commit or
\* rollback; a connection is attempted only after every row was accepted.
C6_ValidacionAntesDeLaBD ==
    /\ errores # <<>> =>
           /\ conn = "none"
           /\ calls = <<>>
           /\ pc \in {"except", "finally", "done"}
    /\ calls # <<>> =>
           /\ errores = <<>>
           /\ \A i \in 1..Len(dfLimpio) : ErroresRegistro(dfLimpio[i]) = <<>>

\* C6 witness: a sheet with a row whose billing month the validator
\* rejects ran to the end without any database operation
C6_Witness ==
    /\ pc = "done"
    /\ \E i \in 1..Len(errores) :
           <<"MES DE FACTURACION", "invalido">> \in
               {errores[i].errores[j] : j \in 1..Len(errores[i].errores)}
    /\ calls = <<>>
    /\ exc.origen = "validacion"

-----------------------------------------------------------------------------
(* Properties of the scalar validators and of the cleaning stage *)

\* positions of the dashes of s
Guiones(s) == {i \in 1..Len(s) : s[i] = "-"}

\* position of the k-th dash of s
Guion(s, k) ==
    CHOOSE i \in Guiones(s) : Cardinality({j \in Guiones(s) : j <= i}) = k

\* check (b): exactly 6 dash-separated segments
SeisSegmentos(s) == Cardinality(Guiones(s)) = 5

\* check (c): every segment is made of digits only (and of at least one)
SegmentosNumericos(s) ==
    /\ s # <<>>
    /\ \A i \in 1..Len(s) : s[i] \in Digits \cup {"-"}
    /\ s[1] # "-" /\ s[Len(s)] # "-"
    /\ \A i \in 1..(Len(s) - 1) : ~(s[i] = "-" /\ s[i + 1] = "-")

\* check (d): the 5th of the 6 segments has exactly 6 characters
QuintoDeSeis(s) == Guion(s, 5) - Guion(s, 4) - 1 = 6

\* check (e): the last character is a digit
TerminaEnDigito(s) == s # <<>> /\ s[Len(s)] \in Digits

\* the verdict the five checks give when applied in the order (a)..(e)
VeredictoEsperado(x) ==
    IF ~IsStr(x) THEN Verdict(FALSE, "No es una cadena de texto", 0)
    ELSE IF ~SeisSegmentos(x.s)
    THEN Verdict(FALSE, "Debe tener 5 guiones (tiene n)", Cardinality(Guiones(x.s)))
    ELSE IF ~SegmentosNumericos(x.s)
    THEN Verdict(FALSE, "Todas las partes deben ser numericas", 0)
    ELSE IF ~QuintoDeSeis(x.s)
    THEN Verdict(FALSE, "La parte 5 debe tener 6 digitos (anio-mes)", 0)
    ELSE IF ~TerminaEnDigito(x.s)
    THEN Verdict(FALSE, "Debe terminar con un digito", 0)
    ELSE Verdict(TRUE, "Valido", 0)

\* C7: validar_codigo never raises; its verdict is the reason of the first
\* failing check in the order (a) text, (b) 6 segments, (c) all digits,
\* (d) 5th segment of 6 digits, (e) last character a digit, each check
\* with a reason of its own, and (true, valid) exactly when all pass.
C7_PrimerFallo ==
    /\ Cardinality({"No es una cadena de texto", "Debe tener 5 guiones (tiene n)",
                    "Todas las partes deben ser numericas",
                    "La parte 5 debe tener 6 digitos (anio-mes)",
                    "Debe terminar con un digito", "Valido"}) = 6
    /\ pc = "retorno" =>
          /\ ret.raised = ""
          /\ ret = VeredictoEsperado(arg)
          /\ ret.ok <=> /\ IsStr(arg)
                        /\ SeisSegmentos(arg.s)
                        /\ SegmentosNumericos(arg.s)
                        /\ QuintoDeSeis(arg.s)
                        /\ TerminaEnDigito(arg.s)

\* C7 witness: a code of 6 segments that fails both check (c) and check
\* (d) was answered with the reason of check (c)
C7_Witness ==
    /\ pc = "retorno"
    /\ IsStr(arg)
    /\ SeisSegmentos(arg.s)
    /\ ~SegmentosNumericos(arg.s)
    /\ ~QuintoDeSeis(arg.s)
    /\ ret = Verdict(FALSE, "Todas las partes deben ser numericas", 0)

\* a number whose value lies in the closed range [1, 12]
NumeroEntre1y12(x) ==
    \/ x.t = "int" /\ 1 <= x.v /\ x.v <= 12
    \/ x.t = "float" /\ 100 <= x.v /\ x.v <= 1200

\* C8: validar_mes returns true exactly for text that, trimmed and
\* upper-cased, is a month name (SETIEMBRE included) and for numbers in the
\* closed range [1, 12]; for every other input it returns false.
C8_MesValido ==
    pc = "retorno" =>
        /\ ret.raised = ""
        /\ ret.ok <=> \/ IsStr(arg) /\ Upper(Strip(arg.s)) \in Meses
                      \/ NumeroEntre1y12(arg)

\* a non-negative number
NoNegativo(x) ==
    \/ x.t \in {"int", "float"} /\ x.v >= 0
    \/ x.t = "inf" /\ x.v > 0

\* C9: validar_precio returns, without raising, a non-negative number:
\* the parsed value with reason OK, and exactly 0.0 whenever the reason is
\* not OK; a missing or unparseable input gives 0.0 and a reason that is
\* not OK.
C9_PrecioNoNegativo ==
    pc = "retorno" =>
        /\ ret.raised = ""
        /\ NoNegativo(ret.valor)
        /\ ret.msg # "OK" => ret.valor = PyFloat(0)
        /\ IsNa(arg) => ret.msg # "OK"

\* the columns the cleaning stage rewrites
ColumnasLimpiadas == {"PRECIO"} \cup {columnas_texto[i] : i \in 1..Len(columnas_texto)}

\* C10: cleaning the output of the cleaning stage yields no modification
\* entry and leaves every price and every cleaned text column as it was.
C10_LimpiezaIdempotente ==
    pc = "relimpia" =>
        /\ ret = <<>>
        /\ Len(arg) = Len(dfLimpio)
        /\ \A i \in 1..Len(arg) : \A c \in ColumnasLimpiadas : arg[i][c] = dfLimpio[i][c]

\* C10 witness: a sheet whose first cleaning modified a price and changed
\* a text column was cleaned a second time
C10_Witness ==
    /\ pc = "relimpia"
    /\ Limpieza(df).precios_modificados # <<>>
    /\ \E i \in 1..Len(df) : df[i]["ASESOR"] # dfLimpio[i]["ASESOR"]
    /\ ret = <<>>

====
